---- MODULE Spec2Model ----
(***************************************************************************)
(* Model of scripts/generate_kernel_ref_data.py: the entry point main and  *)
(* the fixture generator dump_reference_json.                              *)
(*                                                                         *)
(* Python values are modelled as follows: a list is a sequence, a dict     *)
(* with string keys is a record (a function whose DOMAIN is the set of its *)
(* keys, compared exactly as Python compares str keys), a float is the     *)
(* string of its literal.  The atomistic library (ase.io.read,             *)
(* SphericalInvariant, Kernel) and ubjson are external: their results are  *)
(* opaque values that record the arguments of the call that made them.     *)
(***************************************************************************)
EXTENDS Integers, Sequences, FiniteSets

\* Largest number of structures the input file may hold in the model.
MaxStructures == 6

VARIABLES
    pc,          \* position of the run in the script
    json_dump,   \* args.json_dump, the argument of main
    inputFile,   \* the structure file: [exists, n] (n structures)
    libRaisesAt, \* the library call that raises ("none" if the library accepts all)
    outWritable, \* can the output path be opened for writing
    outFile0,    \* the output file before the run
    outFile,     \* the output file now
    sysPath,     \* sys.path entries inserted by the script, newest first
    data,        \* the dict `data` (<<>> until it is built)
    frames,      \* the list `frames`
    ci, ki, ti,  \* positions of the for loops over cutoffs, kernel_names, target_types
    stdout,      \* what the script has written to standard output
    calls,       \* calls made to the descriptor / kernel library, in order
    reads,       \* reads of the input file
    writes,      \* writes of the output file
    exc          \* the exception that ended the run ("none" if none)

vars == <<pc, json_dump, inputFile, libRaisesAt, outWritable, outFile0, outFile,
          sysPath, data, frames, ci, ki, ti, stdout, calls, reads, writes, exc>>

env == <<json_dump, inputFile, libRaisesAt, outWritable, outFile0>>

----------------------------------------------------------------------------
(* The literals of dump_reference_json, lines 22-39.                       *)

path == "../"
cutoffs == <<"3.5">>
gaussian_sigmas == <<"0.5">>
max_radials == <<6>>
max_angulars == <<6>>
soap_types == <<"RadialSpectrum", "PowerSpectrum">>
fn == "../tests/reference_data/dft-smiles_500.xyz"
fn_to_write == "../reference_data/dft-smiles_500.ubjson"
start == 0
length == 5
kernel_names == <<"Cosine">>
target_types == <<"structure", "atom">>
dependant_args == [cosine |-> <<[zeta |-> 1], [zeta |-> 2], [zeta |-> 4]>>]

\* data = dict(...), lines 41-51.  There is no max_angulars key.
InitialData ==
    [filename |-> fn_to_write,
     start |-> start,
     length |-> length,
     cutoffs |-> cutoffs,
     gaussian_sigmas |-> gaussian_sigmas,
     max_radials |-> max_radials,
     soap_types |-> soap_types,
     kernel_names |-> kernel_names,
     target_types |-> target_types,
     dependant_args |-> dependant_args,
     rep_info |-> <<>>]

----------------------------------------------------------------------------
(* Python helpers.                                                         *)

Min(a, b) == IF a <= b THEN a ELSE b

\* d.update(**kw): the keys of kw are added to d, replacing equal keys.
Update(d, kw) ==
    [k \in (DOMAIN d) \cup (DOMAIN kw) |-> IF k \in DOMAIN kw THEN kw[k] ELSE d[k]]

\* read(fn, '{}:{}'.format(start, start+length)): the slice start:start+length
\* of the structures of the file (a slice is cut short by a short file).
ReadSlice(n) == [i \in 1 .. (Min(start + length, n) - Min(start, n)) |-> start + i]

----------------------------------------------------------------------------
(* The body of the innermost loop, lines 64-87.  A run of the loops is     *)
(* threaded through a record r = [rep_info, calls, exc]; e holds the loop  *)
(* variables cutoff, kernel_name, target_type, kwargs, soap_type,          *)
(* gaussian_sigma, max_radial and max_angular.                             *)

\* Lines 64-65: the local max_angular is rebound to 0 for RadialSpectrum.
OverrideMaxAngular(soap_type, max_angular) ==
    IF "RadialSpectrum" = soap_type THEN 0 ELSE max_angular

\* Lines 67-76: hypers, with max_angular as left by lines 64-65.
Hypers(cutoff, max_radial, max_angular, gaussian_sigma, soap_type) ==
    [interaction_cutoff |-> cutoff,
     cutoff_smooth_width |-> "0.5",
     max_radial |-> max_radial,
     max_angular |-> max_angular,
     gaussian_sigma_type |-> "Constant",
     gaussian_sigma_constant |-> gaussian_sigma,
     soap_type |-> soap_type,
     cutoff_function_type |-> "Cosine",
     normalize |-> TRUE,
     radial_basis |-> "GTO"]

\* Lines 79-81: dict(name=..., target_type=...) updated with kwargs.
HypersKernel(kernel_name, target_type, kwargs) ==
    Update([name |-> kernel_name, target_type |-> target_type], kwargs)

\* A call of the external library, as seen from the script: which entry
\* point, under which loop variables, with which descriptor hyperparameters.
LibCall(f, e, hypers) == [f |-> f, combo |-> e, hypers |-> hypers]

\* Line 77: the descriptor object; soap.hypers holds its hyperparameters.
SphericalInvariant(hypers) == [hypers |-> hypers]

\* Lines 82-83: the kernel matrix of the descriptor vectors of the frames
\* against themselves, an opaque value of the library.
KernelMatrix(soap, hypers_kernel, fr) ==
    [rep |-> soap.hypers, kernel |-> hypers_kernel, frames |-> fr]

\* kk.tolist(): the matrix as nested lists, one row per frame.
ToList(kk) ==
    [i \in 1 .. Len(kk.frames) |->
        [j \in 1 .. Len(kk.frames) |-> <<kk.frames[i], kk.frames[j]>>]]

\* Lines 85-87.  The arguments of append are evaluated first: the positional
\* dict(kernel_matrix=..., hypers_rep=...) is built, then the keyword
\* argument hypers_kernel=copy() calls copy without its argument, which
\* raises TypeError.  append is never called, rep_info is left as it was.
AppendBundle(r, kk, soap, hypers_kernel) ==
    LET positional == [kernel_matrix |-> ToList(kk), hypers_rep |-> soap.hypers]
    IN  [r EXCEPT !.exc = "TypeError"]

\* The four calls into the library of lines 77, 78, 82 and 83, in order.
LibraryCalls == <<"SphericalInvariant", "transform", "Kernel", "kernel">>

\* One call into the library (line 77, 78, 82 or 83): the call is made, and
\* it raises when the library rejects it.  After an exception nothing more
\* of the body runs.
CallLibrary(f, e, hypers, r) ==
    IF r.exc # "none" THEN r
    ELSE [r EXCEPT !.calls = Append(@, LibCall(f, e, hypers)),
                   !.exc = IF libRaisesAt = f THEN "LibraryError" ELSE "none"]

\* Lines 64-87 for one combination e.
Body(e, r) ==
    LET max_angular == OverrideMaxAngular(e.soap_type, e.max_angular)
        e1 == [e EXCEPT !.max_angular = max_angular]
        hypers == Hypers(e.cutoff, e.max_radial, max_angular,
                         e.gaussian_sigma, e.soap_type)
        soap == SphericalInvariant(hypers)
        r77 == CallLibrary("SphericalInvariant", e1, hypers, r)
        r78 == CallLibrary("transform", e1, hypers, r77)
        hypers_kernel == HypersKernel(e.kernel_name, e.target_type, e.kwargs)
        r82 == CallLibrary("Kernel", e1, hypers, r78)
        r83 == CallLibrary("kernel", e1, hypers, r82)
        kk == KernelMatrix(soap, hypers_kernel, frames)
    IN  IF r83.exc # "none"
        THEN r83
        ELSE AppendBundle(r83, kk, soap, hypers_kernel)

\* The nested for loops of lines 59-63, innermost first.  Each runs the
\* items i, i+1, ... of its list and stops at the first exception.
RECURSIVE ForMaxAngular(_, _, _)
ForMaxAngular(i, e, r) ==
    IF r.exc # "none" \/ i > Len(max_angulars) THEN r
    ELSE ForMaxAngular(i + 1, e, Body([e EXCEPT !.max_angular = max_angulars[i]], r))

RECURSIVE ForMaxRadial(_, _, _)
ForMaxRadial(i, e, r) ==
    IF r.exc # "none" \/ i > Len(max_radials) THEN r
    ELSE ForMaxRadial(i + 1, e,
                      ForMaxAngular(1, [e EXCEPT !.max_radial = max_radials[i]], r))

RECURSIVE ForGaussianSigma(_, _, _)
ForGaussianSigma(i, e, r) ==
    IF r.exc # "none" \/ i > Len(gaussian_sigmas) THEN r
    ELSE ForGaussianSigma(i + 1, e,
                          ForMaxRadial(1, [e EXCEPT !.gaussian_sigma = gaussian_sigmas[i]], r))

RECURSIVE ForSoapType(_, _, _)
ForSoapType(i, e, r) ==
    IF r.exc # "none" \/ i > Len(soap_types) THEN r
    ELSE ForSoapType(i + 1, e,
                     ForGaussianSigma(1, [e EXCEPT !.soap_type = soap_types[i]], r))

RECURSIVE ForKwargsIn(_, _, _, _)
ForKwargsIn(i, kwargs_list, e, r) ==
    IF r.exc # "none" \/ i > Len(kwargs_list) THEN r
    ELSE ForKwargsIn(i + 1, kwargs_list, e,
                     ForSoapType(1, [e EXCEPT !.kwargs = kwargs_list[i]], r))

\* The loop variables on entry to line 59; the inner ones are not bound yet.
LoopVars(cutoff, kernel_name, target_type) ==
    [cutoff |-> cutoff, kernel_name |-> kernel_name, target_type |-> target_type,
     kwargs |-> [zeta |-> 0], soap_type |-> "", gaussian_sigma |-> "",
     max_radial |-> 0, max_angular |-> 0]

\* The output path before a run: no file, or the file of an earlier run.
NoFile == [exists |-> FALSE, content |-> <<>>]
EarlierFile == [exists |-> TRUE, content |-> <<[filename |-> "earlier run"]>>]

\* open(..., 'wb') before anything is dumped: the file exists and is empty.
Truncated == [exists |-> TRUE, content |-> <<>>]

\* Lines 89-90: the file as ubjson.dump(data, f) leaves it.
Dumped(d) == [exists |-> TRUE, content |-> <<d>>]

----------------------------------------------------------------------------
(* The run.                                                                *)

\* The states in which the script can be started: line 3 has run, main is
\* about to be called with args.json_dump (lines 104-108).
Init ==
    /\ pc = "main"
    /\ json_dump \in BOOLEAN
    /\ inputFile \in {[exists |-> FALSE, n |-> 0]}
                     \cup {[exists |-> TRUE, n |-> k] : k \in 0 .. MaxStructures}
    /\ libRaisesAt \in {"none"} \cup {LibraryCalls[i] : i \in DOMAIN LibraryCalls}
    /\ outWritable \in BOOLEAN
    /\ outFile0 \in {NoFile, EarlierFile}
    /\ outFile = outFile0
    /\ sysPath = <<"../build/">>
    /\ data = <<>>
    /\ frames = <<>>
    /\ ci = 0 /\ ki = 0 /\ ti = 0
    /\ stdout = <<>>
    /\ calls = <<>>
    /\ reads = 0
    /\ writes = 0
    /\ exc = "none"

\* Faulty variant of Main: the flag is not tested.
Main_FlagIgnored ==
    /\ pc = "main"
    /\ pc' = "dump_reference_json"
    /\ UNCHANGED <<env, outFile, sysPath, data, frames, ci, ki, ti, stdout,
                   calls, reads, writes, exc>>

\* Lines 95-99: main(json_dump).
Main ==
    /\ pc = "main"
    /\ pc' = IF json_dump = TRUE THEN "dump_reference_json" ELSE "done"
    /\ UNCHANGED <<env, outFile, sysPath, data, frames, ci, ki, ti, stdout,
                   calls, reads, writes, exc>>

\* Faulty variant of DumpEnter: the output file is opened for writing before
\* the frames are read and the grid is traversed.
DumpEnter_OpensOutputFirst ==
    /\ pc = "dump_reference_json"
    /\ sysPath' = <<"../tests/", "../build/">> \o sysPath
    /\ data' = InitialData
    /\ IF outWritable
       THEN /\ outFile' = Truncated
            /\ writes' = writes + 1
            /\ pc' = "read"
            /\ exc' = exc
       ELSE /\ exc' = "OSError"
            /\ pc' = "aborted"
            /\ UNCHANGED <<outFile, writes>>
    /\ UNCHANGED <<env, frames, ci, ki, ti, stdout, calls, reads>>

\* Lines 19-51: the imports, the sys.path insertions, the literals and data.
DumpEnter ==
    /\ pc = "dump_reference_json"
    /\ sysPath' = <<"../tests/", "../build/">> \o sysPath
    /\ data' = InitialData
    /\ pc' = "read"
    /\ UNCHANGED <<env, outFile, frames, ci, ki, ti, stdout, calls, reads,
                   writes, exc>>

\* Line 53: frames = read(fn, '0:5').
ReadFrames ==
    /\ pc = "read"
    /\ IF inputFile.exists
       THEN /\ frames' = ReadSlice(inputFile.n)
            /\ reads' = reads + 1
            /\ ci' = 1
            /\ pc' = "for_cutoff"
            /\ exc' = exc
       ELSE /\ exc' = "FileNotFoundError"
            /\ pc' = "aborted"
            /\ UNCHANGED <<frames, reads, ci>>
    /\ UNCHANGED <<env, outFile, sysPath, data, ki, ti, stdout, calls, writes>>

\* Line 54 with lines 55-56, and lines 89-90 once the loop is exhausted.
ForCutoff ==
    /\ pc = "for_cutoff"
    /\ IF ci <= Len(cutoffs)
       THEN /\ stdout' = Append(stdout, <<fn, cutoffs[ci]>>)
            /\ data' = [data EXCEPT !.rep_info = Append(@, <<>>)]
            /\ ki' = 1
            /\ pc' = "for_kernel_name"
            /\ UNCHANGED <<outFile, writes, exc>>
       ELSE /\ IF outWritable
               THEN /\ outFile' = Dumped(data)
                    /\ writes' = writes + 1
                    /\ pc' = "done"
                    /\ exc' = exc
               ELSE /\ exc' = "OSError"
                    /\ pc' = "aborted"
                    /\ UNCHANGED <<outFile, writes>>
            /\ UNCHANGED <<stdout, data, ki>>
    /\ UNCHANGED <<env, sysPath, frames, ci, ti, calls, reads>>

\* Line 57.
ForKernelName ==
    /\ pc = "for_kernel_name"
    /\ IF ki <= Len(kernel_names)
       THEN /\ ti' = 1
            /\ pc' = "for_target_type"
            /\ ci' = ci
       ELSE /\ ci' = ci + 1
            /\ pc' = "for_cutoff"
            /\ ti' = ti
    /\ UNCHANGED <<env, outFile, sysPath, data, frames, ki, stdout, calls,
                   reads, writes, exc>>

\* Line 58.
ForTargetType ==
    /\ pc = "for_target_type"
    /\ IF ti <= Len(target_types)
       THEN /\ pc' = "for_kwargs"
            /\ ki' = ki
       ELSE /\ ki' = ki + 1
            /\ pc' = "for_kernel_name"
    /\ UNCHANGED <<env, outFile, sysPath, data, frames, ci, ti, stdout, calls,
                   reads, writes, exc>>

\* Line 59: dependant_args[kernel_name] is looked up (KeyError when the dict
\* has no such key), then lines 59-87 run for the current target type.
ForKwargs ==
    /\ pc = "for_kwargs"
    /\ LET kernel_name == kernel_names[ki]
           target_type == target_types[ti]
       IN  IF kernel_name \notin DOMAIN dependant_args
           THEN /\ exc' = "KeyError"
                /\ pc' = "aborted"
                /\ UNCHANGED <<data, calls, ti>>
           ELSE LET r == ForKwargsIn(1, dependant_args[kernel_name],
                                     LoopVars(cutoffs[ci], kernel_name, target_type),
                                     [rep_info |-> data.rep_info,
                                      calls |-> calls, exc |-> "none"])
                IN  /\ data' = [data EXCEPT !.rep_info = r.rep_info]
                    /\ calls' = r.calls
                    /\ exc' = r.exc
                    /\ pc' = IF r.exc = "none" THEN "for_target_type" ELSE "aborted"
                    /\ ti' = IF r.exc = "none" THEN ti + 1 ELSE ti
    /\ UNCHANGED <<env, outFile, sysPath, frames, ci, ki, stdout, reads, writes>>

Next ==
    \/ Main
    \/ DumpEnter
    \/ ReadFrames
    \/ ForCutoff
    \/ ForKernelName
    \/ ForTargetType
    \/ ForKwargs

Spec == Init /\ [][Next]_vars

----------------------------------------------------------------------------
(* Properties.                                                             *)

\* A run started with the flag set and everything it needs in place: the
\* input file holds at least `length` structures, the library accepts every
\* combination, the output path can be written.
Favourable ==
    /\ json_dump
    /\ inputFile.exists
    /\ inputFile.n >= start + length
    /\ libRaisesAt = "none"
    /\ outWritable

\* The run has ended, normally or with an exception.
Ended == pc \in {"done", "aborted"}

\* The kernel-specific argument sets of the one kernel of the grid.
CosineArgs == dependant_args.cosine

\* The number of combinations under one cutoff: the product of the sizes of
\* the other grid axes.
PerCutoff ==
    Len(kernel_names) * Len(target_types) * Len(CosineArgs) * Len(soap_types)
        * Len(gaussian_sigmas) * Len(max_radials) * Len(max_angulars)

\* The k-th combination under a cutoff in the nested order of the loops:
\* kernel name outermost, then target type, kernel arguments, descriptor
\* kind, sigma, max_radial, and max_angular innermost.
Nested(k) ==
    LET q0 == k - 1
        q1 == q0 \div Len(max_angulars)
        q2 == q1 \div Len(max_radials)
        q3 == q2 \div Len(gaussian_sigmas)
        q4 == q3 \div Len(soap_types)
        q5 == q4 \div Len(CosineArgs)
        q6 == q5 \div Len(target_types)
    IN  [max_angular |-> max_angulars[(q0 % Len(max_angulars)) + 1],
         max_radial |-> max_radials[(q1 % Len(max_radials)) + 1],
         gaussian_sigma |-> gaussian_sigmas[(q2 % Len(gaussian_sigmas)) + 1],
         soap_type |-> soap_types[(q3 % Len(soap_types)) + 1],
         kwargs |-> CosineArgs[(q4 % Len(CosineArgs)) + 1],
         target_type |-> target_types[(q5 % Len(target_types)) + 1],
         kernel_name |-> kernel_names[(q6 % Len(kernel_names)) + 1]]

\* C1: after a favourable run, rep_info holds one result list per cutoff
\* and each list holds one bundle per combination of the other axes (12
\* for the fixed grid).
C1_OneListPerCutoffOfFullLength ==
    (Favourable /\ Ended) =>
        /\ Len(data.rep_info) = Len(cutoffs)
        /\ \A i \in 1 .. Len(data.rep_info) : Len(data.rep_info[i]) = PerCutoff

\* C2: the output file is written at most once, and only once the whole
\* grid has been traversed; a run that aborts has written nothing, so the
\* output file is as it was before the run.
C2_NoWriteUnlessTraversalDone ==
    /\ writes <= 1
    /\ (writes = 0 => outFile = outFile0)
    /\ (writes = 1 => pc = "done" /\ ci > Len(cutoffs))
    /\ (pc = "aborted" => writes = 0 /\ outFile = outFile0)

\* A run that aborted in the middle of the traversal, after the frames were
\* read and the first result list was opened.
C2_AbortedMidLoop ==
    /\ pc = "aborted"
    /\ exc = "KeyError"
    /\ reads = 1
    /\ Len(data.rep_info) = 1
    /\ outFile0 = EarlierFile

\* C3: a favourable run does not crash: it ends normally, having written
\* the output file once with the accumulated data.
C3_FavourableRunWrites ==
    (Favourable /\ Ended) =>
        /\ pc = "done"
        /\ exc = "none"
        /\ writes = 1
        /\ outFile = Dumped(data)

\* C4: after a favourable run, the bundle of every combination carries the
\* kernel matrix, the descriptor hyperparameters and the kernel
\* hyperparameters (name, target type, zeta) of that combination.
C4_BundlesCarryThreeParts ==
    (Favourable /\ Ended) =>
        \A i \in 1 .. Len(cutoffs) : \A k \in 1 .. PerCutoff :
            /\ i <= Len(data.rep_info)
            /\ k <= Len(data.rep_info[i])
            /\ DOMAIN data.rep_info[i][k] = {"kernel_matrix", "hypers_rep", "hypers_kernel"}
            /\ data.rep_info[i][k].hypers_kernel =
                   HypersKernel(Nested(k).kernel_name, Nested(k).target_type,
                                Nested(k).kwargs)

\* C6: with the flag unset the run does nothing: the input file is not
\* read, the library is not called, the output file is neither created nor
\* changed, and main returns at once.
C6_NoOpWhenFlagUnset ==
    ~json_dump =>
        /\ pc \in {"main", "done"}
        /\ reads = 0
        /\ frames = <<>>
        /\ calls = <<>>
        /\ writes = 0
        /\ outFile = outFile0
        /\ exc = "none"

\* main has returned from a call with the flag unset.
C6_ReturnedWithFlagUnset == ~json_dump /\ pc = "done"

\* C9: the lookup dependant_args[kernel_name] never fails.
C9_LookupNeverFails == exc # "KeyError"

====
